---- MODULE Spec2Model ----
(***************************************************************************)
(* @fcjs/core: the decorator registry (route.decorator, body/query/        *)
(* response-dto.decorator, middleware.decorator), its two consumers        *)
(* loadRoutes and OpenApiDoc, and the dispatch of one request through a    *)
(* compiled route.                                                         *)
(*                                                                         *)
(* Conventions.  An optional value (a metadata entry that may be           *)
(* undefined) is a sequence of length at most one: << >> is undefined.     *)
(* A path is a sequence of tokens: "/" , a literal segment, or a           *)
(* placeholder ":name".  A JavaScript object is a function from its keys;  *)
(* Undefined marks a key whose value is undefined.                         *)
(***************************************************************************)
EXTENDS Integers, Sequences, FiniteSets, TLC

----------------------------------------------------------------------------
(* Bounds of the model *)

\* routes declared in all (SpecRegistry)
MaxRoutes == 2
\* entries of ControllerRegistry (SpecRegistry)
MaxRegistered == 2
\* decorators applied to the dispatched handler (Spec, SpecDoc)
MaxDecorators == 3
\* documents built from one registry (SpecDoc, SpecLifecycle)
MaxBuilds == 2
MaxMessages == 2

----------------------------------------------------------------------------
(* Universes the inputs are drawn from *)

Classes == {"A", "B"}
Handlers == {"getItem", "removeItem"}
HttpMethod == {"get", "post", "put", "patch", "delete"}
Schemas == {"s1"}
MwClasses == {"auth", "audit"}

Undefined == "undefined"
Null == "null"

BasePaths == { << >>, <<"/", "a">>, <<"/", "b">> }
SubPaths == { <<"/">>, <<"/", ":id">> }

\* the class and the handler the dispatch specification compiles and serves
DispatchClass == "A"
DispatchHandler == "getItem"
DispatchBase == <<"/", "a">>
DispatchPath == <<"/", ":id">>

\* request.query / request.body contents: conforming, or carrying a field
\* the shape does not declare
InValues == {"good", "extra"}
\* what a user handler may return: conforming, conforming plus an undeclared
\* key, not conforming, or nothing
OutValues == {"good", "extra", "bad", Undefined}

Some(x) == <<x>>
None == << >>

----------------------------------------------------------------------------
(* exceptions.util.ts *)

HttpException(message, statusCode, details) ==
  [kind |-> "http", message |-> message, statusCode |-> statusCode,
   details |-> details]

BadRequestError(message, details) == HttpException(message, 400, details)

InternalServerError(message, details) == HttpException(message, 500, details)

NotFoundError(message, details) == HttpException(message, 404, details)

UnauthorizedError(message, details) == HttpException(message, 401, details)

ConflictError(message, details) == HttpException(message, 409, details)

\* an Error that is no HttpException: a plain Error, or a ZodError
PlainError(message) ==
  [kind |-> "error", message |-> message, statusCode |-> 0,
   details |-> Undefined]

ZodError(issues) ==
  [kind |-> "zod", message |-> "zod", statusCode |-> 0, details |-> issues]

\* zod.util.ts: err instanceof ZodError || e.name === 'ZodError'
isZodError(err) == err.kind = "zod"

isHttpException(err) == err.kind = "http"

----------------------------------------------------------------------------
(* The schema capability, as the decorators use it *)

\* schema.strict().parse(value): unknown keys are rejected
StrictParse(schema, value) ==
  CASE value = "good" -> [ok |-> TRUE, value |-> value, issues |-> Undefined]
    [] value = "extra" ->
         [ok |-> FALSE, value |-> Undefined, issues |-> "unrecognized_keys"]
    [] OTHER -> [ok |-> FALSE, value |-> Undefined, issues |-> "invalid_type"]

\* schema.parse(value): unknown keys are stripped, the parsed value returned
Parse(schema, value) ==
  CASE value = "good" -> [ok |-> TRUE, value |-> "good", issues |-> Undefined]
    [] value = "extra" -> [ok |-> TRUE, value |-> "good", issues |-> Undefined]
    [] OTHER -> [ok |-> FALSE, value |-> Undefined, issues |-> "invalid_type"]

----------------------------------------------------------------------------
VARIABLES
  \* ---- the metadata registry (Reflect metadata and ControllerRegistry)
  ControllerRegistry, \* route.decorator: ControllerClass[]
  basePath,           \* basePathMetadataKey, per class (optional)
  routes,             \* routesMetadataKey, per class: RouteDefinition[]
  descriptor,         \* descriptor.value of a method: the wrappers around
                      \* the user's method, innermost first
  openapiQuery,       \* openapiQueryMetadataKey, per method (optional)
  openapiBody,        \* openapiBodyMetadataKey, per method (optional)
  openapiResponse,    \* openapiResponseMetadataKey, per method (optional)
  middlewares,        \* middlewareMetadataKey, per method: MiddlewareMetadata[]
  openapiMW,          \* openapiMWMetadataKey, per method (optional)
  openapiRoute,       \* openapiPath/openapiMethod metadata, per method
  declared,           \* history: the schema and middleware decorators
                      \* applied, in the order of their application
  superclass,         \* per class: the class it extends (optional), whose
                      \* metadata Reflect.getMetadata falls back to
  \* ---- the message channel (websocket.decorator)
  wsMessages,         \* 'ws:messages' metadata, per class: {event,
                      \* methodName}[]
  wsRoutesRegistry,   \* Map<string, WsRouteHandlers>, per path (optional)
  wsConn,             \* the server and its one connection: state and url
  wsLog,              \* history: each message received on the connection,
                      \* the method it called and the frames sent for it
  \* ---- the two consumers
  app,                \* the Express application: layers in app.use order
  loaded,             \* loadRoutes has run
  doc,                \* the paths of the last document built (optional)
  docBuilds,          \* history: the number of documents built so far
  \* ---- the request whose code is running
  pc, req, res, idx, cur, events, accessLog,
  \* ---- a second request in flight, suspended at an await while the
  \* other one runs: its pc, req, res, idx, cur and events
  parked

regVars == <<ControllerRegistry, basePath, routes, descriptor, openapiQuery,
             openapiBody, openapiResponse, middlewares, openapiMW,
             openapiRoute, declared>>
wsVars == <<wsMessages, wsRoutesRegistry, wsConn, wsLog>>
outVars == <<app, loaded, doc, docBuilds, parked, superclass, wsVars>>
reqVars == <<pc, req, res, idx, cur, events, accessLog>>
vars == <<ControllerRegistry, basePath, routes, descriptor, openapiQuery,
          openapiBody, openapiResponse, middlewares, openapiMW, openapiRoute,
          declared, app, loaded, doc, docBuilds, pc, req, res, idx, cur,
          events, accessLog, parked, superclass, wsMessages,
          wsRoutesRegistry, wsConn, wsLog>>

Methods == Classes \X Handlers

\* the classes decorated with @WsRoute and the paths they are registered at
WsClasses == {"Chat"}

WsPaths == {"/chat", "/feed"}

----------------------------------------------------------------------------
(* Reflect.getMetadata: the target's own metadata, or else that of the     *)
(* class it extends (the lookup walks the prototype chain)                  *)

HasParent(c) == superclass[c] # None

Parent(c) == superclass[c][1]

\* the class whose RouteDefinition[] array a lookup on `c` returns: its own
\* if it has one, or else its parent's if that one has one
RoutesHolder(c) ==
  IF HasParent(c) /\ routes[c] = << >> /\ routes[Parent(c)] # << >>
  THEN Parent(c)
  ELSE c

\* Reflect.getMetadata(routesMetadataKey, Controller) || []
getRoutes(c) == routes[RoutesHolder(c)]

\* the class whose MiddlewareMetadata[] array a lookup on `c`, `h` returns
MiddlewaresHolder(c, h) ==
  IF /\ HasParent(c)
     /\ middlewares[<<c, h>>] = << >>
     /\ middlewares[<<Parent(c), h>>] # << >>
  THEN Parent(c)
  ELSE c

\* Reflect.getMetadata(basePathMetadataKey, Controller)
getBasePath(c) ==
  IF HasParent(c) /\ basePath[c] = None THEN basePath[Parent(c)]
  ELSE basePath[c]

\* Reflect.getMetadata(key, prototype, handlerName) of an optional value
getOptional(meta, c, h) ==
  IF HasParent(c) /\ meta[<<c, h>>] = None THEN meta[<<Parent(c), h>>]
  ELSE meta[<<c, h>>]

\* the subclass has a method of this name of its own: it decorated it
OwnMethod(c, h) ==
  \/ openapiRoute[<<c, h>>] # None
  \/ openapiMW[<<c, h>>] # None
  \/ descriptor[<<c, h>>] # << >>

\* instance[handlerName]: the class's own method, or else the inherited one
getHandler(c, h) ==
  IF HasParent(c) /\ ~OwnMethod(c, h) THEN descriptor[<<Parent(c), h>>]
  ELSE descriptor[<<c, h>>]

----------------------------------------------------------------------------
(* route.decorator *)

registerControllerFront(controller) ==
  /\ ControllerRegistry' = <<controller>> \o ControllerRegistry

\* ControllerRegistry.push(controller)
registerController(controller) ==
  /\ ControllerRegistry' = Append(ControllerRegistry, controller)

\* @Route(basePath) on a class
Route(bp, target) ==
  /\ basePath' = [basePath EXCEPT ![target] = Some(bp)]
  /\ registerController(target)
  /\ UNCHANGED <<routes, descriptor, openapiQuery, openapiBody,
                 openapiResponse, middlewares, openapiMW, openapiRoute,
                 declared>>
  /\ UNCHANGED outVars
  /\ UNCHANGED reqVars

\* a direct call of the exported registerController
RegisterOnly(target) ==
  /\ registerController(target)
  /\ UNCHANGED <<basePath, routes, descriptor, openapiQuery, openapiBody,
                 openapiResponse, middlewares, openapiMW, openapiRoute,
                 declared>>
  /\ UNCHANGED outVars
  /\ UNCHANGED reqVars

\* @Get(path), @Post(path), ... on a method
createMethodDecorator(method, path, target, propertyKey) ==
  /\ routes' = [routes EXCEPT ![RoutesHolder(target)] =
                  Append(@, [path |-> path, method |-> method,
                             handlerName |-> propertyKey])]
  /\ openapiRoute' = [openapiRoute EXCEPT ![<<target, propertyKey>>] =
                        Some([path |-> path, method |-> method])]
  /\ UNCHANGED <<ControllerRegistry, basePath, descriptor, openapiQuery,
                 openapiBody, openapiResponse, middlewares, openapiMW,
                 declared>>
  /\ UNCHANGED outVars
  /\ UNCHANGED reqVars

getDefaultStatusCodeNoCreated(method) ==
  CASE method = "delete" -> 204
    [] OTHER -> 200

getDefaultStatusCode(method) ==
  CASE method = "post" -> 201
    [] method = "delete" -> 204
    [] OTHER -> 200

----------------------------------------------------------------------------
(* query-dto / body-dto / response-dto decorators: each replaces            *)
(* descriptor.value by a wrapper around the previous value and records the  *)
(* schema for the documentation                                            *)

Wrapper(kind, schema) == [kind |-> kind, schema |-> schema]

QueryDto(schema, target, propertyKey) ==
  /\ descriptor' = [descriptor EXCEPT ![<<target, propertyKey>>] =
                      Append(@, Wrapper("query", schema))]
  /\ openapiQuery' = [openapiQuery EXCEPT ![<<target, propertyKey>>] =
                        Some(schema)]
  /\ declared' = Append(declared, [dec |-> "QueryDto", class |-> target,
                                   handler |-> propertyKey, arg |-> schema])
  /\ UNCHANGED <<ControllerRegistry, basePath, routes, openapiBody,
                 openapiResponse, middlewares, openapiMW, openapiRoute>>
  /\ UNCHANGED outVars
  /\ UNCHANGED reqVars

BodyDto(schema, target, propertyKey) ==
  /\ descriptor' = [descriptor EXCEPT ![<<target, propertyKey>>] =
                      Append(@, Wrapper("body", schema))]
  /\ openapiBody' = [openapiBody EXCEPT ![<<target, propertyKey>>] =
                       Some(schema)]
  /\ declared' = Append(declared, [dec |-> "BodyDto", class |-> target,
                                   handler |-> propertyKey, arg |-> schema])
  /\ UNCHANGED <<ControllerRegistry, basePath, routes, openapiQuery,
                 openapiResponse, middlewares, openapiMW, openapiRoute>>
  /\ UNCHANGED outVars
  /\ UNCHANGED reqVars

ResponseDto(schema, target, propertyKey) ==
  /\ descriptor' = [descriptor EXCEPT ![<<target, propertyKey>>] =
                      Append(@, Wrapper("response", schema))]
  /\ openapiResponse' = [openapiResponse EXCEPT ![<<target, propertyKey>>] =
                           Some(schema)]
  /\ declared' = Append(declared, [dec |-> "ResponseDto", class |-> target,
                                   handler |-> propertyKey, arg |-> schema])
  /\ UNCHANGED <<ControllerRegistry, basePath, routes, openapiQuery,
                 openapiBody, middlewares, openapiMW, openapiRoute>>
  /\ UNCHANGED outVars
  /\ UNCHANGED reqVars

----------------------------------------------------------------------------
(* middleware.decorator *)

\* the fields of `new MiddlewareClass()`
MwHeaderKey(mw) == IF mw = "auth" THEN "Authorization" ELSE Undefined

MwDescription(mw) == IF mw = "auth" THEN "Bearer <token>" ELSE Undefined

\* existing.push({ fn: wrappedFn, headerKey, description })
PushMiddleware(existing, entry) == Append(existing, entry)

\* @Middleware(MiddlewareClass) on a method
Middleware(mw, target, propertyKey) ==
  /\ middlewares' = [middlewares EXCEPT
                       ![<<MiddlewaresHolder(target, propertyKey),
                           propertyKey>>] =
                       PushMiddleware(@, [fn |-> mw,
                                          headerKey |-> MwHeaderKey(mw),
                                          description |-> MwDescription(mw)])]
  /\ openapiMW' = [openapiMW EXCEPT ![<<target, propertyKey>>] =
                     Some([headerKey |-> MwHeaderKey(mw),
                           description |-> MwDescription(mw)])]
  /\ declared' = Append(declared, [dec |-> "Middleware", class |-> target,
                                   handler |-> propertyKey, arg |-> mw])
  /\ UNCHANGED <<ControllerRegistry, basePath, routes, descriptor,
                 openapiQuery, openapiBody, openapiResponse, openapiRoute>>
  /\ UNCHANGED outVars
  /\ UNCHANGED reqVars

getMiddlewares(target, propertyKey) ==
  middlewares[<<MiddlewaresHolder(target, propertyKey), propertyKey>>]

----------------------------------------------------------------------------
(* loadRoutes *)

\* Reflect.getMetadata(basePathMetadataKey, Controller) || '/'
MountPath(Controller) ==
  IF getBasePath(Controller) = None \/ getBasePath(Controller)[1] = << >>
  THEN <<"/">>
  ELSE getBasePath(Controller)[1]

MiddlewareFnsReversed(mws) ==
  [i \in 1..Len(mws) |-> mws[Len(mws) + 1 - i].fn]

\* middlewares?.map((m) => m.fn) || []
MiddlewareFns(mws) == [i \in 1..Len(mws) |-> mws[i].fn]

\* router[method](path, ...middlewareFns, async (req, res) => {...})
CompiledRoute(Controller, r) ==
  [method |-> r.method,
   path |-> r.path,
   handlerName |-> r.handlerName,
   middlewareFns |-> MiddlewareFns(getMiddlewares(Controller, r.handlerName)),
   handler |-> getHandler(Controller, r.handlerName)]

\* the Router built for one controller, as mounted by app.use(basePath, router)
RouterLayer(Controller) ==
  [kind |-> "router",
   controller |-> Controller,
   basePath |-> MountPath(Controller),
   stack |-> [i \in 1..Len(getRoutes(Controller)) |->
                CompiledRoute(Controller, getRoutes(Controller)[i])]]

ErrorHandlerLayer ==
  [kind |-> "errorHandler", controller |-> "-", basePath |-> << >>,
   stack |-> << >>]

\* the classes whose constructor throws
ThrowingConstructors == {"Broken"}

\* const instance = new Controller() throws inside controllers.forEach
Throws(Controller) == Controller \in ThrowingConstructors

\* the controllers the forEach gets through: those before the first one
\* whose construction throws, the exception leaving the loop and the try
Constructed(controllers) ==
  SubSeq(controllers, 1,
         IF \E i \in 1..Len(controllers) : Throws(controllers[i])
         THEN (CHOOSE i \in 1..Len(controllers) :
                 /\ Throws(controllers[i])
                 /\ \A k \in 1..(i - 1) : ~Throws(controllers[k])) - 1
         ELSE Len(controllers))

loadRoutes(controllers) ==
  /\ ~loaded
  /\ app' = app \o [i \in 1..Len(Constructed(controllers)) |->
                      RouterLayer(controllers[i])]
                \o (IF Constructed(controllers) = controllers
                    THEN <<ErrorHandlerLayer>>
                    ELSE << >>)
  /\ loaded' = TRUE
  /\ UNCHANGED <<doc, docBuilds, parked, superclass, wsVars>>
  /\ UNCHANGED regVars
  /\ UNCHANGED reqVars

----------------------------------------------------------------------------
(* openapi.util: OpenApiDoc *)

EmptyMap == [k \in {} |-> k]

IsPlaceholder(tok) == tok \in {":id", ":orderId"}

\* match.substring(1)
PlaceholderKey(tok) ==
  CASE tok = ":id" -> "id"
    [] tok = ":orderId" -> "orderId"
    [] OTHER -> tok

\* `{${key}}`
Brace(tok) ==
  CASE tok = ":id" -> "{id}"
    [] tok = ":orderId" -> "{orderId}"
    [] OTHER -> tok

\* .replace(/\/+/g, '/')
RECURSIVE CollapseSlashes(_)
CollapseSlashes(p) ==
  IF Len(p) < 2 THEN p
  ELSE IF p[1] = "/" /\ p[2] = "/" THEN CollapseSlashes(Tail(p))
  ELSE <<p[1]>> \o CollapseSlashes(Tail(p))

RewritePlaceholdersNone(p) == p

\* .replace(/:\w+/g, (match) => `{${key}}`)
RewritePlaceholders(p) == [i \in 1..Len(p) |-> Brace(p[i])]

NormalizedPath(fullPath) == RewritePlaceholders(CollapseSlashes(fullPath))

\* pathSchema: z.object({ [key]: z.string() }) merged in for every match
PathSchema(fullPath) ==
  [key \in {PlaceholderKey(fullPath[i]) :
              i \in {j \in 1..Len(fullPath) : IsPlaceholder(fullPath[j])}} |->
     "string"]

\* headerSchema: one required header when the descriptor has a headerKey
HeaderSchema(middlewareMeta) ==
  IF middlewareMeta # None /\ middlewareMeta[1].headerKey # Undefined
  THEN Some([key |-> middlewareMeta[1].headerKey,
             description |-> middlewareMeta[1].description])
  ELSE None

errorSchema(mssg) ==
  [description |-> mssg, schema |-> Some([kind |-> "error", of |-> mssg])]

SuccessResponse(responseSchema) ==
  IF responseSchema # None
  THEN [description |-> "Success",
        schema |-> Some([kind |-> "success", of |-> responseSchema[1]])]
  ELSE [description |-> "Success", schema |-> None]

ResponsesHeaderOnly(method, fullPath, query, body, response, mw) ==
  LET codes == {500}
               \cup (IF body # None \/ query # None THEN {400} ELSE {})
               \cup (IF HeaderSchema(mw) # None THEN {401} ELSE {})
               \cup (IF DOMAIN PathSchema(fullPath) # {} THEN {404} ELSE {})
               \cup {getDefaultStatusCode(method)}
  IN [code \in codes |->
        CASE code = getDefaultStatusCode(method) -> SuccessResponse(response)
          [] code = 500 -> errorSchema("Internal Server Error")
          [] code = 400 -> errorSchema("Bad Request")
          [] code = 401 -> errorSchema("Unauthorized")
          [] OTHER -> errorSchema("Not Found")]

Responses(method, fullPath, query, body, response, mw) ==
  LET codes == {500}
               \cup (IF body # None \/ query # None THEN {400} ELSE {})
               \cup (IF mw # None THEN {401} ELSE {})
               \cup (IF DOMAIN PathSchema(fullPath) # {} THEN {404} ELSE {})
               \cup {getDefaultStatusCode(method)}
  IN [code \in codes |->
        CASE code = getDefaultStatusCode(method) -> SuccessResponse(response)
          [] code = 500 -> errorSchema("Internal Server Error")
          [] code = 400 -> errorSchema("Bad Request")
          [] code = 401 -> errorSchema("Unauthorized")
          [] OTHER -> errorSchema("Not Found")]

camelToHuman(str) ==
  CASE str = "getItem" -> "Get item"
    [] str = "removeItem" -> "Remove item"
    [] OTHER -> str

Operation(Controller, r) ==
  LET query == getOptional(openapiQuery, Controller, r.handlerName)
      body == getOptional(openapiBody, Controller, r.handlerName)
      response == getOptional(openapiResponse, Controller, r.handlerName)
      mw == getOptional(openapiMW, Controller, r.handlerName)
      fullPath == getBasePath(Controller)[1] \o r.path
  IN [tags |-> <<Controller>>,
      operationId |-> camelToHuman(r.handlerName),
      summary |-> camelToHuman(r.handlerName),
      requestParams |-> [path |-> PathSchema(fullPath),
                         query |-> query,
                         header |-> HeaderSchema(mw)],
      requestBody |-> body,
      responses |-> Responses(r.method, fullPath, query, body, response, mw)]

PutOperationReplace(paths, normalizedPath, method, op) ==
  [p \in DOMAIN paths \cup {normalizedPath} |->
     IF p = normalizedPath THEN [m \in {method} |-> op] ELSE paths[p]]

\* paths[normalizedPath] = { ...(paths[normalizedPath] || {}), [method]: op }
PutOperation(paths, normalizedPath, method, op) ==
  LET old == IF normalizedPath \in DOMAIN paths THEN paths[normalizedPath]
             ELSE EmptyMap
  IN [p \in DOMAIN paths \cup {normalizedPath} |->
        IF p = normalizedPath
        THEN [m \in DOMAIN old \cup {method} |->
                IF m = method THEN op ELSE old[m]]
        ELSE paths[p]]

\* routes.forEach(...) of one controller, from route i on
RECURSIVE DocRoutes(_, _, _)
DocRoutes(paths, Controller, i) ==
  IF i > Len(getRoutes(Controller)) THEN paths
  ELSE LET r == getRoutes(Controller)[i]
           fullPath == getBasePath(Controller)[1] \o r.path
       IN DocRoutes(PutOperation(paths, NormalizedPath(fullPath), r.method,
                                 Operation(Controller, r)),
                    Controller, i + 1)

\* if (!basePath || routes.length === 0) ... return
DocSkips(Controller) ==
  \/ getBasePath(Controller) = None
  \/ getBasePath(Controller)[1] = << >>
  \/ Len(getRoutes(Controller)) = 0

\* controllers.forEach(...) over ControllerRegistry, from entry i on
RECURSIVE DocControllers(_, _)
DocControllers(paths, i) ==
  IF i > Len(ControllerRegistry) THEN paths
  ELSE LET Controller == ControllerRegistry[i]
       IN DocControllers(IF DocSkips(Controller) THEN paths
                         ELSE DocRoutes(paths, Controller, 1),
                         i + 1)

InitialPathsCounted ==
  IF docBuilds = 0 THEN EmptyMap
  ELSE [p \in {<<"/", "build">>} |-> EmptyMap]

\* const paths = {}
InitialPaths == EmptyMap

\* new OpenApiDoc(title)
OpenApiDoc ==
  /\ docBuilds < MaxBuilds
  /\ doc' = Some(DocControllers(InitialPaths, 1))
  /\ docBuilds' = docBuilds + 1
  /\ UNCHANGED <<app, loaded, parked, superclass, wsVars>>
  /\ UNCHANGED regVars
  /\ UNCHANGED reqVars

----------------------------------------------------------------------------
(* The response object of Express, as the code uses it *)

NewResponse == [headersSent |-> FALSE, statusCode |-> 200, body |-> None]

\* JSON.stringify drops the keys whose value is undefined
JsonStringify(obj) ==
  [k \in {key \in DOMAIN obj : key = "success" \/ obj[key] # Undefined} |->
     obj[k]]

\* res.status(code)
ResStatus(r, code) == [r EXCEPT !.statusCode = code]

\* res.json(obj) on a response whose headers are not sent yet
ResJson(r, obj) ==
  [r EXCEPT !.headersSent = TRUE, !.body = Some(JsonStringify(obj))]

\* a response written by user code itself (res.status(code).send(...))
ResSendRaw(r, code) ==
  [headersSent |-> TRUE, statusCode |-> code,
   body |-> Some([raw |-> "custom"])]

\* err.details ?? null
OrNull(x) == IF x = Undefined THEN Null ELSE x

----------------------------------------------------------------------------
(* One request through the layers mounted by loadRoutes *)

NoValue == [kind |-> "none", value |-> "-", err |-> PlainError("-")]
Returned(v) == [kind |-> "value", value |-> v, err |-> PlainError("-")]
Thrown(e) == [kind |-> "throw", value |-> "-", err |-> e]

\* history of one request: the steps run, in order
EventOf(e, arg, out, val) == [e |-> e, arg |-> arg, out |-> out, val |-> val]
Event(e, arg, out) == EventOf(e, arg, out, "-")

\* the compiled route the request in flight was matched to
TheRoute == app[req.layer].stack[req.route]

\* what a middleware's handler may throw
MwErrors ==
  { UnauthorizedError("Unauthorized", Undefined),
    HttpException("Forbidden", 403, "reason"),
    PlainError("boom1"), PlainError("boom2") }

\* what a user handler may throw
HandlerErrors ==
  { NotFoundError("Not Found", Undefined),
    ConflictError("Conflict", "reason"),
    PlainError("boom1"), PlainError("boom2"),
    ZodError("handler_issues") }

\* Express serves a request by the first route that matches it
FirstMatch(l, r) ==
  \A l2 \in 1..Len(app) : \A r2 \in 1..Len(app[l2].stack) :
    (/\ app[l2].basePath = app[l].basePath
     /\ app[l2].stack[r2].path = app[l].stack[r].path
     /\ app[l2].stack[r2].method = app[l].stack[r].method)
    => (l2 > l \/ (l2 = l /\ r2 >= r))

\* a request arrives for a mounted route
Dispatch(l, r, query, body) ==
  /\ loaded
  /\ pc = "idle"
  /\ l \in 1..Len(app)
  /\ r \in 1..Len(app[l].stack)
  /\ FirstMatch(l, r)
  /\ req' = [layer |-> l, route |-> r, query |-> query, body |-> body]
  /\ res' = NewResponse
  /\ pc' = "mw"
  /\ idx' = 1
  /\ UNCHANGED <<cur, events, accessLog>>
  /\ UNCHANGED regVars
  /\ UNCHANGED outVars

\* wrappedFn of the idx-th middleware: fn(req, res, next) calls next()
MiddlewareNext ==
  /\ pc = "mw"
  /\ idx <= Len(TheRoute.middlewareFns)
  /\ events' = Append(events, Event("mw", TheRoute.middlewareFns[idx], "next"))
  /\ idx' = idx + 1
  /\ UNCHANGED <<pc, req, res, cur, accessLog>>
  /\ UNCHANGED regVars
  /\ UNCHANGED outVars

\* wrappedFn of the idx-th middleware: fn throws, the catch calls next(err),
\* and Express skips to the error handler
MiddlewareThrow(err) ==
  /\ pc = "mw"
  /\ idx <= Len(TheRoute.middlewareFns)
  /\ events' = Append(events, Event("mw", TheRoute.middlewareFns[idx], "throw"))
  /\ cur' = Thrown(err)
  /\ pc' = "error"
  /\ UNCHANGED <<req, res, idx, accessLog>>
  /\ UNCHANGED regVars
  /\ UNCHANGED outVars

\* wrappedFn of the idx-th middleware, fn being async: fn(req, res, next)
\* returns a promise that wrappedFn does not await, and fn throws after it
\* resumed; the try block has been left, so neither next(err) nor next() is
\* called, the rejection is unhandled and the request is never answered
MiddlewareReject(err) ==
  /\ pc = "mw"
  /\ idx <= Len(TheRoute.middlewareFns)
  /\ events' = Append(events,
                      Event("mw", TheRoute.middlewareFns[idx], "reject"))
  /\ cur' = Thrown(err)
  /\ pc' = "hung"
  /\ UNCHANGED <<req, res, idx, accessLog>>
  /\ UNCHANGED regVars
  /\ UNCHANGED outVars

\* the idx-th middleware answers the request itself and never calls next
MiddlewareEnd ==
  /\ pc = "mw"
  /\ idx <= Len(TheRoute.middlewareFns)
  /\ events' = Append(events, Event("mw", TheRoute.middlewareFns[idx], "end"))
  /\ res' = ResSendRaw(res, 429)
  /\ pc' = "done"
  /\ UNCHANGED <<req, idx, cur, accessLog>>
  /\ UNCHANGED regVars
  /\ UNCHANGED outVars

\* the route's own async (req, res) => {...} starts: it calls handler(req, res)
FinalHandler ==
  /\ pc = "mw"
  /\ idx > Len(TheRoute.middlewareFns)
  /\ pc' = "enter"
  /\ idx' = Len(TheRoute.handler)
  /\ UNCHANGED <<req, res, cur, events, accessLog>>
  /\ UNCHANGED regVars
  /\ UNCHANGED outVars

----------------------------------------------------------------------------
(* The wrappers of the dto decorators, outermost first on the way in and    *)
(* innermost first on the way out; idx is the wrapper the control is in     *)

\* catch (err) of QueryDto's wrapper
QueryDtoCatch(err) ==
  IF isZodError(err)
  THEN BadRequestError("Invalid Request query params", err.details)
  ELSE err

\* catch (err) of BodyDto's wrapper
BodyDtoCatch(err) ==
  IF isZodError(err)
  THEN BadRequestError("Invalid Request body", err.details)
  ELSE err

ResponseDtoCatchLeaky(err) ==
  IF isZodError(err)
  THEN InternalServerError(err.details, Undefined)
  ELSE err

\* catch (err) of ResponseDto's wrapper
ResponseDtoCatch(err) ==
  IF isZodError(err)
  THEN InternalServerError("Invalid Response body", err.details)
  ELSE err

DtoCatch(kind, err) ==
  CASE kind = "query" -> QueryDtoCatch(err)
    [] kind = "body" -> BodyDtoCatch(err)
    [] OTHER -> ResponseDtoCatch(err)

\* schema.strict().parse(req.query)
QueryDtoParse(schema, query) == StrictParse(schema, query)

BodyDtoParseLoose(schema, body) == Parse(schema, body)

\* schema.strict().parse(req.body)
BodyDtoParse(schema, body) == StrictParse(schema, body)

\* schema.parse(result)
ResponseDtoParse(schema, result) == Parse(schema, result)

InboundParseShared(w) ==
  IF parked.pc # "idle"
  THEN BodyDtoParse(w.schema, parked.req.body)
  ELSE BodyDtoParse(w.schema, req.body)

\* what the try block of an inbound wrapper does before it awaits the
\* wrapped method: the outcome of the parse
InboundParse(w) ==
  IF w.kind = "query" THEN QueryDtoParse(w.schema, req.query)
  ELSE BodyDtoParse(w.schema, req.body)

\* QueryDto's / BodyDto's wrapper is called: the parse succeeds and the
\* wrapped method is called
InboundEnterOk ==
  /\ pc = "enter"
  /\ idx >= 1
  /\ TheRoute.handler[idx].kind \in {"query", "body"}
  /\ InboundParse(TheRoute.handler[idx]).ok
  /\ events' = Append(events, Event(TheRoute.handler[idx].kind,
                                    TheRoute.handler[idx].schema, "ok"))
  /\ idx' = idx - 1
  /\ UNCHANGED <<pc, req, res, cur, accessLog>>
  /\ UNCHANGED regVars
  /\ UNCHANGED outVars

\* QueryDto's / BodyDto's wrapper is called: the parse throws a ZodError,
\* which the wrapper's own catch turns into a BadRequestError
InboundEnterFail ==
  /\ pc = "enter"
  /\ idx >= 1
  /\ TheRoute.handler[idx].kind \in {"query", "body"}
  /\ ~InboundParse(TheRoute.handler[idx]).ok
  /\ events' = Append(events, Event(TheRoute.handler[idx].kind,
                                    TheRoute.handler[idx].schema, "fail"))
  /\ cur' = Thrown(DtoCatch(TheRoute.handler[idx].kind,
                            ZodError(InboundParse(TheRoute.handler[idx]).issues)))
  /\ pc' = "unwind"
  /\ idx' = idx + 1
  /\ UNCHANGED <<req, res, accessLog>>
  /\ UNCHANGED regVars
  /\ UNCHANGED outVars

\* ResponseDto's wrapper is called: it awaits the wrapped method first
ResponseEnter ==
  /\ pc = "enter"
  /\ idx >= 1
  /\ TheRoute.handler[idx].kind = "response"
  /\ idx' = idx - 1
  /\ UNCHANGED <<pc, req, res, cur, events, accessLog>>
  /\ UNCHANGED regVars
  /\ UNCHANGED outVars

\* the user's method runs and returns a value, after writing the response
\* itself or not
UserReturn(v, wrote) ==
  /\ pc = "enter"
  /\ idx = 0
  /\ events' = Append(events, EventOf("handler",
                                      IF wrote THEN "wrote" ELSE "-",
                                      "return", v))
  /\ res' = IF wrote THEN ResSendRaw(res, 200) ELSE res
  /\ cur' = Returned(v)
  /\ pc' = "unwind"
  /\ idx' = 1
  /\ UNCHANGED <<req, accessLog>>
  /\ UNCHANGED regVars
  /\ UNCHANGED outVars

\* the user's method runs and throws, after writing the response itself or not
UserThrow(err, wrote) ==
  /\ pc = "enter"
  /\ idx = 0
  /\ events' = Append(events, Event("handler", IF wrote THEN "wrote" ELSE "-",
                                    "throw"))
  /\ res' = IF wrote THEN ResSendRaw(res, 200) ELSE res
  /\ cur' = Thrown(err)
  /\ pc' = "unwind"
  /\ idx' = 1
  /\ UNCHANGED <<req, accessLog>>
  /\ UNCHANGED regVars
  /\ UNCHANGED outVars

\* the wrapped method returned into QueryDto's / BodyDto's wrapper, which
\* returns the value as it is
InboundReturn ==
  /\ pc = "unwind"
  /\ idx <= Len(TheRoute.handler)
  /\ cur.kind = "value"
  /\ TheRoute.handler[idx].kind \in {"query", "body"}
  /\ idx' = idx + 1
  /\ UNCHANGED <<pc, req, res, cur, events, accessLog>>
  /\ UNCHANGED regVars
  /\ UNCHANGED outVars

\* the wrapped method returned into ResponseDto's wrapper, which parses the
\* result and returns the parsed value, or throws an InternalServerError
ResponseReturn ==
  /\ pc = "unwind"
  /\ idx <= Len(TheRoute.handler)
  /\ cur.kind = "value"
  /\ TheRoute.handler[idx].kind = "response"
  /\ LET parsed == ResponseDtoParse(TheRoute.handler[idx].schema, cur.value)
     IN /\ cur' = IF parsed.ok THEN Returned(parsed.value)
                  ELSE Thrown(DtoCatch("response", ZodError(parsed.issues)))
        /\ events' = Append(events,
                            Event("response", TheRoute.handler[idx].schema,
                                  IF parsed.ok THEN "ok" ELSE "fail"))
  /\ idx' = idx + 1
  /\ UNCHANGED <<pc, req, res, accessLog>>
  /\ UNCHANGED regVars
  /\ UNCHANGED outVars

\* the wrapped method threw into a wrapper: its catch rethrows, a ZodError
\* as the wrapper's own declared failure
WrapperCatch ==
  /\ pc = "unwind"
  /\ idx <= Len(TheRoute.handler)
  /\ cur.kind = "throw"
  /\ cur' = Thrown(DtoCatch(TheRoute.handler[idx].kind, cur.err))
  /\ idx' = idx + 1
  /\ UNCHANGED <<pc, req, res, events, accessLog>>
  /\ UNCHANGED regVars
  /\ UNCHANGED outVars

----------------------------------------------------------------------------
(* The end of the route's own handler (after `await handler(req, res)`) and *)
(* the global error handler                                                *)

\* if (!res.headersSent) { res.status(status); if (res.statusCode !== 204)
\*   res.json({ success: true, data: result }) }
SendSuccess(r, method, result) ==
  IF r.headersSent THEN r
  ELSE LET r1 == ResStatus(r, getDefaultStatusCode(method))
       IN IF r1.statusCode # 204
          THEN ResJson(r1, [success |-> TRUE, data |-> result])
          ELSE r1

\* the object the catch block of the route's handler passes to res.json
RouteErrorBody(err) ==
  IF isHttpException(err)
  THEN [success |-> FALSE, error |-> err.message,
        details |-> OrNull(err.details)]
  ELSE [success |-> FALSE, error |-> "Internal server error",
        details |-> Null]

\* the object globalErrorHandler passes to res.json
GlobalErrorBody(err) ==
  IF isHttpException(err)
  THEN [success |-> FALSE, error |-> err.message, details |-> err.details]
  ELSE [success |-> FALSE, error |-> "Internal server error"]

ErrorStatus(err) == IF isHttpException(err) THEN err.statusCode ELSE 500

LogRecord(by, r) == [by |-> by, status |-> r.statusCode]

\* `await handler(req, res)` returned: the success envelope, then the log
RouteRespond ==
  /\ pc = "unwind"
  /\ idx > Len(TheRoute.handler)
  /\ cur.kind = "value"
  /\ res' = SendSuccess(res, TheRoute.method, cur.value)
  /\ accessLog' = Append(accessLog, LogRecord("route", res'))
  /\ pc' = "done"
  /\ UNCHANGED <<req, idx, cur, events>>
  /\ UNCHANGED regVars
  /\ UNCHANGED outVars

\* `await handler(req, res)` threw: the error envelope, then the log
RouteCatch ==
  /\ pc = "unwind"
  /\ idx > Len(TheRoute.handler)
  /\ cur.kind = "throw"
  /\ ~res.headersSent
  /\ res' = ResJson(ResStatus(res, ErrorStatus(cur.err)),
                    RouteErrorBody(cur.err))
  /\ accessLog' = Append(accessLog, LogRecord("route", res'))
  /\ pc' = "done"
  /\ UNCHANGED <<req, idx, cur, events>>
  /\ UNCHANGED regVars
  /\ UNCHANGED outVars

\* `await handler(req, res)` threw after the response was written: res.json
\* throws inside the catch block, and the rejection leaves the handler
RouteCatchThrows ==
  /\ pc = "unwind"
  /\ idx > Len(TheRoute.handler)
  /\ cur.kind = "throw"
  /\ res.headersSent
  /\ res' = ResStatus(res, ErrorStatus(cur.err))
  /\ pc' = "escaped"
  /\ UNCHANGED <<req, idx, cur, events, accessLog>>
  /\ UNCHANGED regVars
  /\ UNCHANGED outVars

\* globalErrorHandler(err, req, res, _next)
globalErrorHandler ==
  /\ pc = "error"
  /\ \E l \in 1..Len(app) : app[l].kind = "errorHandler"
  /\ ~res.headersSent
  /\ res' = ResJson(ResStatus(res, ErrorStatus(cur.err)),
                    GlobalErrorBody(cur.err))
  /\ accessLog' = Append(accessLog, LogRecord("errorHandler", res'))
  /\ pc' = "done"
  /\ UNCHANGED <<req, idx, cur, events>>
  /\ UNCHANGED regVars
  /\ UNCHANGED outVars

----------------------------------------------------------------------------
(* Specifications *)

NoRequest == [layer |-> 0, route |-> 0, query |-> "-", body |-> "-"]

\* the context of a request that has not arrived yet
NoContext ==
  [pc |-> "idle", req |-> NoRequest, res |-> NewResponse, idx |-> 0,
   cur |-> NoValue, events |-> << >>]

Init ==
  /\ ControllerRegistry = << >>
  /\ basePath = [c \in Classes |-> None]
  /\ routes = [c \in Classes |-> << >>]
  /\ descriptor = [m \in Methods |-> << >>]
  /\ openapiQuery = [m \in Methods |-> None]
  /\ openapiBody = [m \in Methods |-> None]
  /\ openapiResponse = [m \in Methods |-> None]
  /\ middlewares = [m \in Methods |-> << >>]
  /\ openapiMW = [m \in Methods |-> None]
  /\ openapiRoute = [m \in Methods |-> None]
  /\ declared = << >>
  /\ app = << >>
  /\ loaded = FALSE
  /\ doc = None
  /\ docBuilds = 0
  /\ parked = NoContext
  /\ superclass = [c \in Classes |-> None]
  /\ wsMessages = [c \in WsClasses |-> << >>]
  /\ wsRoutesRegistry = [p \in WsPaths |-> None]
  /\ wsConn = [state |-> "down", url |-> "-"]
  /\ wsLog = << >>
  /\ pc = "idle"
  /\ req = NoRequest
  /\ res = NewResponse
  /\ idx = 0
  /\ cur = NoValue
  /\ events = << >>
  /\ accessLog = << >>

\* the decorators of a class run when the class is defined, the method
\* decorators before the class decorator, and loadRoutes runs afterwards
Defining(c) == ~loaded /\ doc = None /\ \A i \in 1..Len(ControllerRegistry) :
                                          ControllerRegistry[i] # c

\* Spec: one class with one handler is decorated, compiled, and serves a
\* request
Decorate ==
  /\ Defining(DispatchClass)
  /\ Len(declared) < MaxDecorators
  /\ \/ \E s \in Schemas : QueryDto(s, DispatchClass, DispatchHandler)
     \/ \E s \in Schemas : BodyDto(s, DispatchClass, DispatchHandler)
     \/ \E s \in Schemas : ResponseDto(s, DispatchClass, DispatchHandler)
     \/ \E mw \in MwClasses : Middleware(mw, DispatchClass, DispatchHandler)

DeclareRoute ==
  /\ Defining(DispatchClass)
  /\ Len(routes[DispatchClass]) = 0
  /\ \E method \in HttpMethod :
       createMethodDecorator(method, DispatchPath, DispatchClass,
                             DispatchHandler)

DefineClass ==
  /\ Defining(DispatchClass)
  /\ Len(routes[DispatchClass]) = 1
  /\ Route(DispatchBase, DispatchClass)

Bootstrap ==
  /\ ControllerRegistry = <<DispatchClass>>
  /\ loadRoutes(<<DispatchClass>>)

Serve ==
  \/ \E l \in 1..Len(app) : \E r \in 1..Len(app[l].stack) :
       \E query \in InValues, body \in InValues : Dispatch(l, r, query, body)
  \/ MiddlewareNext
  \/ \E err \in MwErrors : MiddlewareThrow(err)
  \/ \E err \in MwErrors : MiddlewareReject(err)
  \/ MiddlewareEnd
  \/ FinalHandler
  \/ InboundEnterOk
  \/ InboundEnterFail
  \/ ResponseEnter
  \/ \E v \in OutValues, wrote \in BOOLEAN : UserReturn(v, wrote)
  \/ \E err \in HandlerErrors, wrote \in BOOLEAN : UserThrow(err, wrote)
  \/ InboundReturn
  \/ ResponseReturn
  \/ WrapperCatch
  \/ RouteRespond
  \/ RouteCatch
  \/ RouteCatchThrows
  \/ globalErrorHandler

Next == Decorate \/ DeclareRoute \/ DefineClass \/ Bootstrap \/ Serve

Spec == Init /\ [][Next]_vars

----------------------------------------------------------------------------
(* Properties of a dispatched request (Spec) *)

Dispatched == pc # "idle"

HasEvent(e) == \E i \in 1..Len(events) : events[i].e = e

MwEvents == SelectSeq(events, LAMBDA ev : ev.e = "mw")

\* the user's method returned without having written the response itself
CleanReturn ==
  \E i \in 1..Len(events) :
    events[i].e = "handler" /\ events[i].out = "return" /\ events[i].arg = "-"

Declares(kind) ==
  \E i \in 1..Len(TheRoute.handler) : TheRoute.handler[i].kind = kind

\* C1: when the route's handler returned a value v without failing and
\* without the response having been written by it, the status is 201 for
\* POST, 204 for DELETE and 200 for GET, PUT and PATCH, and for every status
\* other than 204 the response is sent with the body {success: true, data: v}
C1_SuccessEnvelope ==
  (pc = "done" /\ cur.kind = "value" /\ CleanReturn) =>
    /\ res.statusCode = (CASE TheRoute.method = "post" -> 201
                           [] TheRoute.method = "delete" -> 204
                           [] TheRoute.method \in {"get", "put", "patch"} -> 200)
    /\ res.statusCode # 204 =>
         /\ res.headersSent
         /\ res.body = Some(JsonStringify([success |-> TRUE,
                                           data |-> cur.value]))

C1_Witness ==
  /\ pc = "done" /\ cur.kind = "value" /\ CleanReturn
  /\ TheRoute.method = "post"
  /\ res.statusCode = 201
  /\ res.body = Some([success |-> TRUE, data |-> "good"])

\* C2: a declared failure (an HttpException with status s, message m and
\* optional details d) raised by the handler, a middleware or a validation
\* step is answered with status s and {success: false, error: m, details: d},
\* details being null when d is absent, wherever it was raised
C2_DeclaredFailureEnvelope ==
  (pc = "done" /\ cur.kind = "throw" /\ isHttpException(cur.err)) =>
    /\ res.headersSent
    /\ res.statusCode = cur.err.statusCode
    /\ res.body = Some([success |-> FALSE, error |-> cur.err.message,
                        details |-> IF cur.err.details = Undefined
                                    THEN Null ELSE cur.err.details])

\* C3: a failure that is no HttpException, raised by the handler or by a
\* middleware, is answered with status 500 and
\* {success: false, error: "Internal server error", details: null},
\* whatever its message
C3_UndeclaredFailureEnvelope ==
  (pc = "done" /\ cur.kind = "throw" /\ ~isHttpException(cur.err)) =>
    /\ res.headersSent
    /\ res.statusCode = 500
    /\ res.body = Some([success |-> FALSE, error |-> "Internal server error",
                        details |-> Null])

\* every middleware of the route called next, so the route's handler ran
ChainPassed ==
  /\ Len(MwEvents) = Len(TheRoute.middlewareFns)
  /\ \A i \in 1..Len(MwEvents) : MwEvents[i].out = "next"

\* C4: for a handler with a declared body shape and a request body that
\* fails strict validation, the user handler is never invoked, and the
\* request, once it has passed the middlewares, is answered with status 400,
\* success:false and validator issues as details: those of the body whenever
\* the body validation has run
C4_BodyRejected ==
  (Dispatched /\ Declares("body") /\ ~StrictParse("s1", req.body).ok) =>
    /\ ~HasEvent("handler")
    /\ pc # "escaped"
    /\ (pc = "done" /\ ChainPassed) =>
         /\ res.headersSent
         /\ res.statusCode = 400
         /\ res.body[1].success = FALSE
         /\ res.body[1].details \in {"unrecognized_keys", "invalid_type"}
         /\ HasEvent("body") =>
              res.body = Some([success |-> FALSE,
                               error |-> "Invalid Request body",
                               details |-> StrictParse("s1", req.body).issues])

C4_Witness ==
  /\ pc = "done"
  /\ req.body = "extra"
  /\ \E i \in 1..Len(events) : events[i].e = "body" /\ events[i].out = "fail"
  /\ res.statusCode = 400
  /\ res.body = Some([success |-> FALSE, error |-> "Invalid Request body",
                      details |-> "unrecognized_keys"])

\* the user's method returned (without writing the response itself) a value
\* that fails the response shape
ReturnedNonConforming ==
  \E i \in 1..Len(events) :
    /\ events[i].e = "handler" /\ events[i].out = "return"
    /\ events[i].arg = "-"
    /\ events[i].val \in {"bad", Undefined}

\* C5: when a handler with a declared response shape returns a value that
\* fails the shape, the request is answered with status 500, success:false,
\* the fixed error text of the InternalServerError of the outbound step and
\* the validator issues in details only; the outbound validation runs only
\* after the handler has returned
C5_ResponseRejected ==
  /\ (pc = "done" /\ Declares("response") /\ ReturnedNonConforming) =>
       /\ res.headersSent
       /\ res.statusCode = 500
       /\ res.body = Some([success |-> FALSE,
                           error |-> "Invalid Response body",
                           details |-> "invalid_type"])
  /\ \A i \in 1..Len(events) :
       events[i].e = "response" =>
         \E j \in 1..(i - 1) :
           events[j].e = "handler" /\ events[j].out = "return"

C5_Witness ==
  /\ pc = "done" /\ Declares("response") /\ ReturnedNonConforming
  /\ \E i \in 1..Len(events) :
       events[i].e = "response" /\ events[i].out = "fail"
  /\ res.statusCode = 500

\* C6: a DELETE route with no shapes and no middleware whose handler returns
\* without writing the response completes the response: it is sent, with
\* status 204 and an empty body
C6_DeleteCompletes ==
  (/\ pc = "done"
   /\ TheRoute.method = "delete"
   /\ TheRoute.handler = << >>
   /\ TheRoute.middlewareFns = << >>
   /\ CleanReturn) =>
    /\ res.headersSent
    /\ res.statusCode = 204
    /\ res.body = None

\* the middleware decorators applied to the dispatched handler, in order
DeclaredMiddlewares == SelectSeq(declared, LAMBDA d : d.dec = "Middleware")

\* C7: the middleware steps of a request run in the order in which they
\* were declared on the handler; the wrappers and the user handler run only
\* after every step has called next; after a step that throws, no later step
\* and no part of the handler runs
C7_MiddlewareOrder ==
  Dispatched =>
    /\ Len(MwEvents) <= Len(DeclaredMiddlewares)
    /\ \A i \in 1..Len(MwEvents) : MwEvents[i].arg = DeclaredMiddlewares[i].arg
    /\ (\E i \in 1..Len(events) : events[i].e # "mw") =>
         /\ Len(MwEvents) = Len(DeclaredMiddlewares)
         /\ \A i \in 1..Len(MwEvents) : MwEvents[i].out = "next"
    /\ \A i \in 1..Len(events) :
         (events[i].e = "mw" /\ events[i].out = "throw") => i = Len(events)

C7_Witness ==
  /\ pc = "done"
  /\ Len(MwEvents) = 2
  /\ MwEvents[1].arg = "audit" /\ MwEvents[2].arg = "auth"
  /\ HasEvent("handler")

\* C8: for a handler with a query shape and a body shape, attached in
\* whichever order, the query validation runs before the body validation,
\* and a request whose query and body both fail is answered with the query
\* failure without the body validation having run
C8_QueryBeforeBody ==
  (Dispatched /\ Declares("query") /\ Declares("body")) =>
    /\ \A i \in 1..Len(events) :
         events[i].e = "body" =>
           \E j \in 1..(i - 1) : events[j].e = "query" /\ events[j].out = "ok"
    /\ (/\ pc = "done"
        /\ HasEvent("query") \/ HasEvent("body")
        /\ ~StrictParse("s1", req.query).ok
        /\ ~StrictParse("s1", req.body).ok) =>
         /\ ~HasEvent("body")
         /\ res.body = Some([success |-> FALSE,
                             error |-> "Invalid Request query params",
                             details |-> StrictParse("s1", req.query).issues])

----------------------------------------------------------------------------
(* SpecRegistry: classes are registered and routes declared, then the       *)
(* registry is read by loadRoutes and by OpenApiDoc                         *)

\* the verbs the registry specification declares routes with
RegistryMethods == {"get", "delete"}

\* the method each verb is declared on
HandlerFor(method) == IF method = "get" THEN "getItem" ELSE "removeItem"

\* the controller lists given to loadRoutes
ControllerLists == { << >>, <<"A">>, <<"B">>, <<"A", "B">>, <<"B", "A">> }

RECURSIVE CountRoutes(_)
CountRoutes(cs) ==
  IF cs = {} THEN 0
  ELSE LET c == CHOOSE x \in cs : TRUE
       IN Len(routes[c]) + CountRoutes(cs \ {c})

\* registration completes before the registry is read
Building == ~loaded /\ doc = None

RegRoute ==
  /\ Building
  /\ Len(ControllerRegistry) < MaxRegistered
  /\ \E c \in Classes, bp \in BasePaths : Route(bp, c)

RegRegister ==
  /\ Building
  /\ Len(ControllerRegistry) < MaxRegistered
  /\ \E c \in Classes : RegisterOnly(c)

RegDeclare ==
  /\ Building
  /\ CountRoutes(Classes) < MaxRoutes
  /\ \E c \in Classes, method \in RegistryMethods, path \in SubPaths :
       createMethodDecorator(method, path, c, HandlerFor(method))

RegLoad == \E controllers \in ControllerLists : loadRoutes(controllers)

RegDoc == doc = None /\ OpenApiDoc

NextRegistry == RegRoute \/ RegRegister \/ RegDeclare \/ RegLoad \/ RegDoc

SpecRegistry == Init /\ [][NextRegistry]_vars

----------------------------------------------------------------------------
(* Properties of the two consumers (SpecRegistry) *)

RouterLayers == {l \in 1..Len(app) : app[l].kind = "router"}

\* the (verb, full path) pairs the routing table serves
Served ==
  UNION { { <<app[l].stack[r].method,
              NormalizedPath(app[l].basePath \o app[l].stack[r].path)>> :
            r \in 1..Len(app[l].stack) } : l \in RouterLayers }

\* the (verb, path) operations of the document
Documented ==
  UNION { { <<m, p>> : m \in DOMAIN doc[1][p] } : p \in DOMAIN doc[1] }

\* the status the route's handler sends on success
RuntimeSuccessStatus(method) ==
  SendSuccess(NewResponse, method, "good").statusCode

\* C9: the routing table built by loadRoutes, from whatever controller list,
\* and the document built by OpenApiDoc hold the same (verb, path) pairs, and
\* every documented operation documents the status the runtime sends on
\* success
C9_ConsumersAgree ==
  (loaded /\ doc # None) =>
    /\ Served = Documented
    /\ \A p \in DOMAIN doc[1] : \A m \in DOMAIN doc[1][p] :
         /\ RuntimeSuccessStatus(m) \in DOMAIN doc[1][p][m].responses
         /\ doc[1][p][m].responses[RuntimeSuccessStatus(m)].description
              = "Success"

\* an owner with no base path (absent or empty) or with no declared route
NoBasePathOrRoutes(c) ==
  \/ basePath[c] = None
  \/ basePath[c][1] = << >>
  \/ Len(routes[c]) = 0

\* C10: loadRoutes mounts no route, and OpenApiDoc documents no operation,
\* for an owner with no base path or with no declared route
C10_SkippedOwners ==
  /\ loaded =>
       \A l \in RouterLayers :
         NoBasePathOrRoutes(app[l].controller) => app[l].stack = << >>
  /\ doc # None =>
       \A p \in DOMAIN doc[1] : \A m \in DOMAIN doc[1][p] :
         \A i \in 1..Len(doc[1][p][m].tags) :
           ~NoBasePathOrRoutes(doc[1][p][m].tags[i])

\* the entries of the routing table for a declared (owner, verb, sub-path)
TableEntries(c, method, path) ==
  UNION { { <<l, r>> : r \in { k \in 1..Len(app[l].stack) :
                                /\ app[l].stack[k].method = method
                                /\ app[l].stack[k].path = path } } :
          l \in { j \in RouterLayers : app[j].controller = c } }

\* C11: after loadRoutes has run, the routing table holds exactly one entry
\* for every (owner, verb, sub-path) declared in the registry: none is
\* missing and none is registered more than once
C11_OneEntryPerRoute ==
  loaded =>
    \A i \in 1..Len(ControllerRegistry) :
      \A k \in 1..Len(routes[ControllerRegistry[i]]) :
        Cardinality(TableEntries(ControllerRegistry[i],
                                 routes[ControllerRegistry[i]][k].method,
                                 routes[ControllerRegistry[i]][k].path)) = 1

\* C18: registering an owner that is registered already fails and leaves
\* the registry as it was, so every owner appears at most once in
\* ControllerRegistry
C18_NoDuplicateOwner ==
  \A i, j \in 1..Len(ControllerRegistry) :
    ControllerRegistry[i] = ControllerRegistry[j] => i = j

----------------------------------------------------------------------------
(* SpecDoc: the methods of one class are decorated, the class is           *)
(* registered, and the document is built from it, more than once           *)

DocBasePaths == { <<"/", "api">>, <<"/", "api", "/">> }

DocSubPaths ==
  { <<"/">>, <<"/", ":id">>,
    <<"/", "users", "/", ":id", "/", "orders", "/", ":orderId">> }

\* the verbs each method of the class is declared with: the decorated
\* method takes the three default statuses, the other one a fourth verb
DocVerbs(h) ==
  IF h = DispatchHandler THEN {"get", "post", "delete"} ELSE {"put"}

\* @Get(path), ... on a method that has no verb decorator yet; the
\* decorators of the methods of a class run in the order of the methods
DocDeclare ==
  /\ Defining(DispatchClass)
  /\ \E h \in Handlers :
       /\ openapiRoute[<<DispatchClass, h>>] = None
       /\ h # DispatchHandler =>
            openapiRoute[<<DispatchClass, DispatchHandler>>] # None
       /\ \E method \in DocVerbs(h), path \in DocSubPaths :
            createMethodDecorator(method, path, DispatchClass, h)

DocDefine ==
  /\ Defining(DispatchClass)
  /\ \E bp \in DocBasePaths : Route(bp, DispatchClass)

DocBuild ==
  /\ ControllerRegistry # << >>
  /\ OpenApiDoc

NextDoc == Decorate \/ DocDeclare \/ DocDefine \/ DocBuild

SpecDoc == Init /\ [][NextDoc]_vars

----------------------------------------------------------------------------
(* Properties of the document (SpecDoc) *)

\* the routes declared by the registered classes, as <<class, route>>
DeclaredRoutes ==
  UNION { { <<ControllerRegistry[i], routes[ControllerRegistry[i]][k]>> :
            k \in 1..Len(routes[ControllerRegistry[i]]) } :
          i \in 1..Len(ControllerRegistry) }

\* base path + sub-path of a declared route
ComposedPath(cr) == basePath[cr[1]][1] \o cr[2].path

\* the operation the document holds for a declared route
DocumentedOp(cr) == doc[1][NormalizedPath(ComposedPath(cr))][cr[2].method]

\* a decorator of this name was applied to the route's handler
DeclaredOn(cr, dec) ==
  \E i \in 1..Len(declared) :
    /\ declared[i].dec = dec
    /\ declared[i].class = cr[1]
    /\ declared[i].handler = cr[2].handlerName

HasPathParameter(path) == \E i \in 1..Len(path) : IsPlaceholder(path[i])

DefaultStatus(method) ==
  CASE method = "post" -> 201
    [] method = "delete" -> 204
    [] method \in {"get", "put", "patch"} -> 200

\* C12: the response map documented for a declared route holds a 500
\* entry; a 400 entry iff a body shape or a query shape is declared; a 401
\* entry iff a middleware is attached; a 404 entry iff the composed path has
\* a path parameter; an entry at the verb's default status (201 POST, 204
\* DELETE, 200 otherwise) whose schema is {success: true, data: shape}
\* exactly when a response shape is declared; and nothing else
C12_ResponseMap ==
  doc # None =>
    \A cr \in DeclaredRoutes :
      LET m == DocumentedOp(cr).responses
          status == DefaultStatus(cr[2].method)
      IN /\ 500 \in DOMAIN m
         /\ 400 \in DOMAIN m <=>
              (DeclaredOn(cr, "BodyDto") \/ DeclaredOn(cr, "QueryDto"))
         /\ 401 \in DOMAIN m <=> DeclaredOn(cr, "Middleware")
         /\ 404 \in DOMAIN m <=> HasPathParameter(ComposedPath(cr))
         /\ status \in DOMAIN m
         /\ DeclaredOn(cr, "ResponseDto") =>
              m[status].schema = Some([kind |-> "success", of |-> "s1"])
         /\ ~DeclaredOn(cr, "ResponseDto") => m[status].schema = None
         /\ DOMAIN m \subseteq {500, 400, 401, 404, status}

C12_Witness ==
  /\ doc # None
  /\ \E cr \in DeclaredRoutes :
       /\ cr[2].method = "post"
       /\ DeclaredOn(cr, "Middleware") /\ DeclaredOn(cr, "BodyDto")
       /\ DeclaredOn(cr, "ResponseDto")
       /\ DOMAIN DocumentedOp(cr).responses = {500, 400, 401, 404, 201}
       /\ DocumentedOp(cr).responses[201].schema # None

\* C13: every middleware attached to a handler that declares a header key
\* (every step the runtime chain of the route runs) has its header listed
\* in the documented operation, with its description, also when more than
\* one middleware is attached to the handler
C13_HeadersDocumented ==
  doc # None =>
    \A cr \in DeclaredRoutes :
      \A i \in 1..Len(getMiddlewares(cr[1], cr[2].handlerName)) :
        LET mw == getMiddlewares(cr[1], cr[2].handlerName)[i]
        IN mw.headerKey # Undefined =>
             DocumentedOp(cr).requestParams.header =
               Some([key |-> mw.headerKey, description |-> mw.description])

\* every token of a composed path paired with the token before it
WithPrevious(path) ==
  [i \in 1..Len(path) |-> <<path[i], IF i > 1 THEN path[i - 1] ELSE "">>]

\* the tokens that survive the collapse of '/' runs: every token but a '/'
\* that follows a '/'
KeptTokens(path) ==
  SelectSeq(WithPrevious(path), LAMBDA t : ~(t[1] = "/" /\ t[2] = "/"))

\* ':name' written as '{name}'
Braced == (":id" :> "{id}") @@ (":orderId" :> "{orderId}")

\* the name of ':name'
Named == (":id" :> "id") @@ (":orderId" :> "orderId")

\* base+sub with every run of '/' collapsed and every ':name' as '{name}'
ExpectedPath(path) ==
  CHOOSE expected \in
    { [j \in 1..Len(kept) |->
         IF kept[j][1] \in DOMAIN Braced THEN Braced[kept[j][1]]
         ELSE kept[j][1]] : kept \in {KeptTokens(path)} } : TRUE

\* C14: the documented path of a route is base+sub with every run of '/'
\* collapsed to one and every ':name' rewritten to '{name}', and the path
\* parameter schema requires exactly the placeholder names of the route,
\* each as a string; base '/api' with sub-path '/users/:id/orders/:orderId'
\* gives '/api/users/{id}/orders/{orderId}' with parameters id and orderId
C14_DocumentedPath ==
  doc # None =>
    \A cr \in DeclaredRoutes :
      \E expected \in {ExpectedPath(ComposedPath(cr))} :
        LET path == ComposedPath(cr)
            names == {Named[path[i]] :
                        i \in {j \in 1..Len(path) : path[j] \in DOMAIN Named}}
        IN /\ expected \in DOMAIN doc[1]
           /\ cr[2].method \in DOMAIN doc[1][expected]
           /\ doc[1][expected][cr[2].method].requestParams.path
                = [n \in names |-> "string"]
           /\ (/\ basePath[cr[1]][1] = <<"/", "api">>
               /\ cr[2].path = <<"/", "users", "/", ":id", "/", "orders",
                                 "/", ":orderId">>) =>
                /\ expected = <<"/", "api", "/", "users", "/", "{id}", "/",
                                "orders", "/", "{orderId}">>
                /\ names = {"id", "orderId"}

C14_Witness ==
  /\ doc # None
  /\ \E cr \in DeclaredRoutes :
       /\ basePath[cr[1]][1] = <<"/", "api", "/">>
       /\ cr[2].path = <<"/", "users", "/", ":id", "/", "orders", "/",
                         ":orderId">>
       /\ <<"/", "api", "/", "users", "/", "{id}", "/", "orders", "/",
            "{orderId}">> \in DOMAIN doc[1]

\* C15: routes that compose to the same documented path with different
\* verbs share one path entry with one operation per verb, each the
\* operation built for its route; putting the operation of a further verb
\* on a path leaves the operations the path holds, and the other paths,
\* as they were
C15_VerbsMerge ==
  doc # None =>
    /\ \A cr \in DeclaredRoutes :
         /\ cr[2].method \in DOMAIN doc[1][NormalizedPath(ComposedPath(cr))]
         /\ DocumentedOp(cr) = Operation(cr[1], cr[2])
    /\ \A p \in DOMAIN doc[1] :
         \A m \in HttpMethod \ DOMAIN doc[1][p] :
           \A after \in {PutOperation(doc[1], p, m,
                                      doc[1][p][CHOOSE m0 \in DOMAIN doc[1][p] :
                                                  TRUE])} :
             /\ DOMAIN after = DOMAIN doc[1]
             /\ DOMAIN after[p] = DOMAIN doc[1][p] \cup {m}
             /\ \A m2 \in DOMAIN doc[1][p] : after[p][m2] = doc[1][p][m2]
             /\ \A p2 \in DOMAIN doc[1] \ {p} : after[p2] = doc[1][p2]

C15_Witness ==
  /\ doc # None
  /\ \E p \in DOMAIN doc[1] :
       /\ DOMAIN doc[1][p] = {"post", "put"}
       /\ doc[1][p]["post"].operationId # doc[1][p]["put"].operationId

----------------------------------------------------------------------------
(* SpecLifecycle: two classes are defined, the registry is compiled by     *)
(* loadRoutes and documented, and requests are served                      *)

\* the verb each method is declared with
HandlerVerb(h) == IF h = "getItem" THEN "get" ELSE "delete"

\* the base path of each class
LifeBase(c) == IF c = "A" THEN <<"/", "a">> ELSE <<"/", "b">>

LifeDeclare ==
  \E c \in Classes, h \in Handlers :
    /\ Defining(c)
    /\ openapiRoute[<<c, h>>] = None
    /\ \E path \in SubPaths : createMethodDecorator(HandlerVerb(h), path, c, h)

LifeDefine == \E c \in Classes : Defining(c) /\ Route(LifeBase(c), c)

\* loadRoutes(app, ControllerRegistry)
LifeLoad == ControllerRegistry # << >> /\ loadRoutes(ControllerRegistry)

LifeDoc == ControllerRegistry # << >> /\ OpenApiDoc

\* a request to a mounted route, whose handler returns or throws
LifeServe ==
  \/ \E l \in 1..Len(app) : \E r \in 1..Len(app[l].stack) :
       Dispatch(l, r, "good", "good")
  \/ FinalHandler
  \/ UserReturn("good", FALSE)
  \/ UserThrow(NotFoundError("Not Found", Undefined), FALSE)
  \/ RouteRespond
  \/ RouteCatch

NextLifecycle == LifeDeclare \/ LifeDefine \/ LifeLoad \/ LifeDoc \/ LifeServe

SpecLifecycle == Init /\ [][NextLifecycle]_vars

IsPrefix(s, t) ==
  /\ Len(s) <= Len(t)
  /\ \A i \in 1..Len(s) : s[i] = t[i]

\* C19: the registry is append-only and keeps its order: every step leaves
\* the owners and every owner's routes already present where they are (a
\* new one goes to the end), loadRoutes, the document build and the steps
\* of a request change neither, and loadRoutes reads the owners in
\* registration order and each owner's routes in declaration order
C19_AppendOnly ==
  [][/\ IsPrefix(ControllerRegistry, ControllerRegistry')
     /\ \A c \in Classes : IsPrefix(routes[c], routes'[c])
     /\ (loaded' # loaded \/ docBuilds' # docBuilds \/ reqVars' # reqVars) =>
          UNCHANGED <<ControllerRegistry, routes>>
     /\ loaded' =>
          \A i \in 1..Len(ControllerRegistry') :
            /\ app'[i].controller = ControllerRegistry'[i]
            /\ Len(app'[i].stack) = Len(routes'[ControllerRegistry'[i]])
            /\ \A k \in 1..Len(app'[i].stack) :
                 /\ app'[i].stack[k].method
                      = routes'[ControllerRegistry'[i]][k].method
                 /\ app'[i].stack[k].path
                      = routes'[ControllerRegistry'[i]][k].path]_vars

C19_Witness ==
  /\ ControllerRegistry = <<"B", "A">>
  /\ Len(routes["A"]) = 2
  /\ routes["A"][1].handlerName = "removeItem"
  /\ loaded
  /\ doc # None
  /\ pc = "done"

----------------------------------------------------------------------------
(* Repeated attachment of one metadata field (Spec) *)

\* the middleware decorators applied to one handler, in order
MiddlewaresDeclaredOn(c, h) ==
  SelectSeq(declared,
            LAMBDA d : d.dec = "Middleware" /\ d.class = c /\ d.handler = h)

\* C20: when a field (query, body or response shape, middleware) is
\* attached to a handler more than once, the last attachment replaces the
\* earlier ones: the compiled route runs only the last middleware attached
\* and validates each of query, body and response once, and the metadata
\* the document reads holds the last middleware's descriptor
C20_LastWriteWins ==
  loaded =>
    \A l \in RouterLayers : \A r \in 1..Len(app[l].stack) :
      LET route == app[l].stack[r]
          mws == MiddlewaresDeclaredOn(app[l].controller, route.handlerName)
      IN /\ Len(mws) > 0 =>
              /\ route.middlewareFns = <<mws[Len(mws)].arg>>
              /\ openapiMW[<<app[l].controller, route.handlerName>>] =
                   Some([headerKey |-> MwHeaderKey(mws[Len(mws)].arg),
                         description |-> MwDescription(mws[Len(mws)].arg)])
         /\ \A kind \in {"query", "body", "response"} :
              Cardinality({i \in 1..Len(route.handler) :
                             route.handler[i].kind = kind}) <= 1

----------------------------------------------------------------------------
(* SpecConcurrent: one route with a middleware, a body shape and a         *)
(* response shape is compiled and serves two requests at once.  Node runs  *)
(* one piece of code at a time: the context of the request whose code is   *)
(* running is in pc, req, res, idx, cur, events, that of the other one in  *)
(* parked, and the two change places where the running one yields          *)

\* @Post('/:id') @Middleware(auth) @BodyDto(s1) @ResponseDto(s1), applied
\* bottom-up
ConcDecorate ==
  /\ Defining(DispatchClass)
  /\ \/ Len(declared) = 0 /\ ResponseDto("s1", DispatchClass, DispatchHandler)
     \/ Len(declared) = 1 /\ BodyDto("s1", DispatchClass, DispatchHandler)
     \/ Len(declared) = 2 /\ Middleware("auth", DispatchClass, DispatchHandler)

ConcDeclare ==
  /\ Defining(DispatchClass)
  /\ Len(declared) = 3
  /\ Len(routes[DispatchClass]) = 0
  /\ createMethodDecorator("post", DispatchPath, DispatchClass,
                           DispatchHandler)

\* the context of the request whose code is running
Running ==
  [pc |-> pc, req |-> req, res |-> res, idx |-> idx, cur |-> cur,
   events |-> events]

\* the running request yields (an await, or the return to the event loop)
\* and the other request's code runs
Switch ==
  /\ loaded
  /\ pc # "idle"
  /\ parked' = Running
  /\ pc' = parked.pc
  /\ req' = parked.req
  /\ res' = parked.res
  /\ idx' = parked.idx
  /\ cur' = parked.cur
  /\ events' = parked.events
  /\ UNCHANGED <<app, loaded, doc, docBuilds, accessLog, superclass, wsVars>>
  /\ UNCHANGED regVars

NextConcurrent ==
  ConcDecorate \/ ConcDeclare \/ DefineClass \/ Bootstrap \/ Serve \/ Switch

SpecConcurrent == Init /\ [][NextConcurrent]_vars

\* the requests in flight
InFlight == {x \in {Running, parked} : x.pc # "idle"}

\* the compiled route a request was matched to
RouteOf(x) == app[x.req.layer].stack[x.req.route]

EventsOf(x, e) == SelectSeq(x.events, LAMBDA ev : ev.e = e)

\* every middleware of the request's route called next
PassedChain(x) ==
  /\ Len(EventsOf(x, "mw")) = Len(RouteOf(x).middlewareFns)
  /\ \A i \in 1..Len(EventsOf(x, "mw")) : EventsOf(x, "mw")[i].out = "next"

\* the request's route validates the body, and its own body fails
OwnBodyFails(x) ==
  /\ \E i \in 1..Len(RouteOf(x).handler) : RouteOf(x).handler[i].kind = "body"
  /\ ~StrictParse("s1", x.req.body).ok

\* C17: of two requests served at once by the same compiled route, under
\* every interleaving of their steps, each is validated against its own
\* body and answered from its own input: a request whose body fails is
\* answered 400 with the issues of its own body and never reaches the
\* handler, a request whose body conforms reaches it whatever the other
\* one carries, and a success envelope carries the value the request's own
\* handler call returned
C17_OwnResponse ==
  \A x \in InFlight :
    /\ \A i \in 1..Len(x.events) :
         x.events[i].e = "body" =>
           x.events[i].out = (IF StrictParse("s1", x.req.body).ok
                              THEN "ok" ELSE "fail")
    /\ OwnBodyFails(x) => EventsOf(x, "handler") = << >>
    /\ (x.pc = "done" /\ PassedChain(x)) =>
         /\ OwnBodyFails(x) =>
              x.res = [headersSent |-> TRUE, statusCode |-> 400,
                       body |-> Some([success |-> FALSE,
                                      error |-> "Invalid Request body",
                                      details |->
                                        StrictParse("s1", x.req.body).issues])]
         /\ ~OwnBodyFails(x) => Len(EventsOf(x, "handler")) = 1
         /\ (/\ x.cur.kind = "value"
             /\ EventsOf(x, "handler")[1].arg = "-") =>
              x.res = [headersSent |-> TRUE, statusCode |-> 201,
                       body |-> Some([success |-> TRUE,
                                      data |-> Parse("s1",
                                        EventsOf(x, "handler")[1].val).value])]

C17_Witness ==
  /\ pc = "done" /\ parked.pc = "done"
  /\ req.body = "good" /\ parked.req.body = "extra"
  /\ res.statusCode = 201 /\ parked.res.statusCode = 400
  /\ Len(accessLog) = 2
  /\ accessLog[1].status = 201
  /\ Len(parked.events) = 2

----------------------------------------------------------------------------
(* Failures, the response and the log of one request (Spec) *)

\* the request has come to its end: answered, left to the transport with a
\* failure, or never answered
Ended == pc \in {"done", "escaped", "hung"}

\* the last middleware step that ran raised a failure, at once or after it
\* had resumed
MiddlewareFailed ==
  /\ Len(MwEvents) > 0
  /\ MwEvents[Len(MwEvents)].out \in {"throw", "reject"}

\* C22: a failure raised by a middleware step or by the handler after it
\* resumed from a suspension is answered as the same failure raised at
\* once: a middleware's failure with the envelope of globalErrorHandler, a
\* handler's failure (the response not written yet) with the envelope of the
\* route's catch
C22_AsyncFailureSameResponse ==
  /\ (Ended /\ MiddlewareFailed) =>
       res = ResJson(ResStatus(NewResponse, ErrorStatus(cur.err)),
                     GlobalErrorBody(cur.err))
  /\ (Ended /\ cur.kind = "throw" /\ ~MiddlewareFailed /\ ChainPassed
      /\ \A i \in 1..Len(events) : events[i].arg # "wrote") =>
       res = ResJson(ResStatus(NewResponse, ErrorStatus(cur.err)),
                     RouteErrorBody(cur.err))

\* C23: every dispatched request is answered, whatever its middlewares and
\* its handler do: a request that has come to its end has a response sent,
\* and no failure leaves the composed chain uncaught
C23_AlwaysAnswered ==
  Dispatched =>
    /\ pc \notin {"escaped", "hung"}
    /\ pc = "done" => res.headersSent

\* C25: a request that was answered has emitted exactly one access-log
\* record, with the status of the response sent, whichever way it ended:
\* the handler's success or failure, a middleware that raised, or a
\* middleware that ended the request before the handler
C25_OneLogRecord ==
  pc = "done" =>
    /\ Len(accessLog) = 1
    /\ accessLog[1].status = res.statusCode

\* C26: the steps of a request run in the order inbound validation,
\* middlewares, handler, outbound validation: every query or body
\* validation of the request comes before every middleware step, every
\* middleware step before the handler, the handler before the outbound
\* validation
C26_PipelineOrder ==
  Dispatched =>
    \A i, j \in 1..Len(events) :
      /\ (events[i].e \in {"query", "body"} /\ events[j].e = "mw") => i < j
      /\ (events[i].e = "mw" /\ events[j].e = "handler") => i < j
      /\ (events[i].e = "handler" /\ events[j].e = "response") => i < j

\* the value the user's method returned, where it returned one
HandlerReturned ==
  {events[i].val : i \in {j \in 1..Len(events) :
                            events[j].e = "handler" /\ events[j].out = "return"}}

\* C27: a validation failure is reported only for the channel that failed:
\* 'Invalid Request body' only when the body failed its declared shape,
\* 'Invalid Request query params' only when the query failed its declared
\* shape, 'Invalid Response body' only when the value the handler returned
\* failed the response shape; a schema error raised inside the handler on
\* valid input is reported as none of them
C27_FailedChannelOnly ==
  (pc = "done" /\ res.body # None /\ "error" \in DOMAIN res.body[1]) =>
    /\ res.body[1].error = "Invalid Request body" =>
         Declares("body") /\ ~StrictParse("s1", req.body).ok
    /\ res.body[1].error = "Invalid Request query params" =>
         Declares("query") /\ ~StrictParse("s1", req.query).ok
    /\ res.body[1].error = "Invalid Response body" =>
         /\ Declares("response")
         /\ \E v \in HandlerReturned : ~Parse("s1", v).ok

\* the catch block of the route's handler called res.status(...).json(...)
\* on a response that was sent already
SecondSendAttempted == pc = "escaped" /\ res.headersSent

\* C28: at most one response is written per request: once a response has
\* been sent (also by the handler itself, which then returns or raises),
\* the composed chain does not try to send another one
C28_SingleResponse == Dispatched => ~SecondSendAttempted

----------------------------------------------------------------------------
(* SpecBoot: two classes are defined and loadRoutes is given a list of      *)
(* controllers in which one may have a constructor that throws              *)

\* the classes a list given to loadRoutes is made of
BootClasses == Classes \cup ThrowingConstructors

\* the lists given to loadRoutes: the classes, each at most once, any order
BootLists ==
  {cs \in UNION {[1..n -> BootClasses] : n \in 1..Cardinality(BootClasses)} :
     \A i, j \in 1..Len(cs) : cs[i] = cs[j] => i = j}

BootLoad == \E controllers \in BootLists : loadRoutes(controllers)

\* a request to a mounted route, whose handler returns
BootServe ==
  \/ \E l \in 1..Len(app) : \E r \in 1..Len(app[l].stack) :
       Dispatch(l, r, "good", "good")
  \/ FinalHandler
  \/ UserReturn("good", FALSE)
  \/ RouteRespond

NextBoot == LifeDeclare \/ LifeDefine \/ BootLoad \/ BootServe

SpecBoot == Init /\ [][NextBoot]_vars

Mounted(layers, Controller) ==
  \E k \in 1..Len(layers) :
    layers[k].kind = "router" /\ layers[k].controller = Controller

\* C24: when the registration of one owner fails during loadRoutes (its
\* constructor throws), only that owner is skipped: every other owner of
\* the list, before or after it, is mounted, and the global error handler
\* is installed
C24_OnlyFailingOwnerSkipped ==
  [][\A controllers \in BootLists :
       loadRoutes(controllers) =>
         /\ \A i \in 1..Len(controllers) :
              ~Throws(controllers[i]) => Mounted(app', controllers[i])
         /\ \E k \in 1..Len(app') : app'[k].kind = "errorHandler"]_vars

----------------------------------------------------------------------------
(* SpecInherit: class A is defined, then class B, which may extend A       *)

SuperClass == "A"

SubClass == "B"

\* no decorator of the class has run
Untouched(c) ==
  /\ Defining(c)
  /\ routes[c] = << >>
  /\ \A h \in Handlers :
       openapiRoute[<<c, h>>] = None /\ openapiMW[<<c, h>>] = None

\* class B extends A { ... }: A's definition is complete, B's decorators
\* have yet to run
Extends ==
  /\ ~Defining(SuperClass)
  /\ Untouched(SubClass)
  /\ superclass[SubClass] = None
  /\ superclass' = [superclass EXCEPT ![SubClass] = Some(SuperClass)]
  /\ UNCHANGED <<app, loaded, doc, docBuilds, parked, wsVars>>
  /\ UNCHANGED regVars
  /\ UNCHANGED reqVars

\* the class whose body is being evaluated: A first, B once A is complete
InheritOpen(c) ==
  /\ Defining(c)
  /\ c = SubClass => ~Defining(SuperClass)

InheritDeclare ==
  \E c \in Classes, h \in Handlers :
    /\ InheritOpen(c)
    /\ openapiRoute[<<c, h>>] = None
    /\ \E path \in SubPaths : createMethodDecorator(HandlerVerb(h), path, c, h)

\* the middleware the classes attach, to the method both define
InheritMiddleware ==
  \E c \in Classes :
    /\ InheritOpen(c)
    /\ Len(declared) < MaxDecorators
    /\ Middleware("auth", c, DispatchHandler)

InheritDefine == \E c \in Classes : InheritOpen(c) /\ Route(LifeBase(c), c)

NextInherit ==
  InheritDeclare \/ InheritMiddleware \/ InheritDefine \/ Extends \/ LifeLoad

SpecInherit == Init /\ [][NextInherit]_vars

\* the step applies a verb decorator or @Middleware to a method of `c`
DecoratorOn(c) ==
  \/ \E h \in Handlers : openapiRoute'[<<c, h>>] # openapiRoute[<<c, h>>]
  \/ /\ Len(declared') > Len(declared)
     /\ declared'[Len(declared')].class = c

\* C29: declaring a route or attaching a middleware on one owner changes
\* only that owner's metadata: the route list and the middleware lists of
\* every other owner are the same after the step as before it, also when
\* the decorated owner extends the other one
C29_OwnMetadataOnly ==
  [][\A c \in Classes :
       DecoratorOn(c) =>
         \A other \in Classes \ {c} :
           /\ getRoutes(other)' = getRoutes(other)
           /\ \A h \in Handlers :
                getMiddlewares(other, h)' = getMiddlewares(other, h)]_vars

----------------------------------------------------------------------------
(* websocket.decorator: WsMessage, WsRoute, loadWsRoutes; SpecWs: a class  *)
(* is registered on the message channel and one connection is served       *)

httpVars == <<app, loaded, doc, docBuilds, parked, superclass>>

\* the event names the class declares, and the method of each
WsEvents == {"join", "leave"}

WsMethod(event) == IF event = "join" THEN "onJoin" ELSE "onLeave"

\* @WsMessage(event) on a method
WsMessage(event, target, propertyKey) ==
  /\ wsMessages' = [wsMessages EXCEPT ![target] =
                      Append(@, [event |-> event, methodName |-> propertyKey])]
  /\ UNCHANGED <<wsRoutesRegistry, wsConn, wsLog>>
  /\ UNCHANGED httpVars
  /\ UNCHANGED regVars
  /\ UNCHANGED reqVars

\* for (const { event, methodName } of messages) handlers[event] = ...
WsHandlers(messages) ==
  [e \in {messages[i].event : i \in 1..Len(messages)} |->
     messages[CHOOSE i \in 1..Len(messages) :
                /\ messages[i].event = e
                /\ \A j \in (i + 1)..Len(messages) : messages[j].event # e
             ].methodName]

\* @WsRoute(path) on a class: wsRoutesRegistry.set(path, {instance, handlers})
WsRoute(path, constructor) ==
  /\ wsRoutesRegistry' = [wsRoutesRegistry EXCEPT ![path] =
                            Some([instance |-> constructor,
                                  handlers |->
                                    WsHandlers(wsMessages[constructor])])]
  /\ UNCHANGED <<wsMessages, wsConn, wsLog>>
  /\ UNCHANGED httpVars
  /\ UNCHANGED regVars
  /\ UNCHANGED reqVars

\* new WebSocketServer({ server }); wss.on('connection', ...)
loadWsRoutes ==
  /\ wsConn.state = "down"
  /\ wsConn' = [state |-> "listening", url |-> "-"]
  /\ UNCHANGED <<wsMessages, wsRoutesRegistry, wsLog>>
  /\ UNCHANGED httpVars
  /\ UNCHANGED regVars
  /\ UNCHANGED reqVars

\* the 'connection' callback: ws.close(1008, ...) and return where the
\* registry has no entry for the url, ws.on('message', ...) otherwise
WsConnection(url) ==
  /\ wsConn.state = "listening"
  /\ wsConn' = [state |-> IF wsRoutesRegistry[url] = None THEN "closed"
                          ELSE "open",
                url |-> url]
  /\ UNCHANGED <<wsMessages, wsRoutesRegistry, wsLog>>
  /\ UNCHANGED httpVars
  /\ UNCHANGED regVars
  /\ UNCHANGED reqVars

\* JSON.stringify({ event: 'error', data: { message, details } })
WsErrorFrame(message, details) ==
  [event |-> "error",
   data |-> JsonStringify([message |-> message, details |-> details])]

\* JSON.stringify(result) of what the user's method returned
WsResultFrame(result) ==
  [event |-> "result", data |-> JsonStringify([message |-> result])]

\* the members every plain object inherits from Object.prototype
ObjectPrototypeMembers == {"toString", "constructor"}

\* routeEntry.handlers[msg.event] on the plain object `handlers`
WsLookup(handlers, event) ==
  IF event \in DOMAIN handlers
  THEN [kind |-> "own", methodName |-> handlers[event]]
  ELSE IF event \in ObjectPrototypeMembers
       THEN [kind |-> "inherited", methodName |-> event]
       ELSE [kind |-> "undefined", methodName |-> "-"]

\* handlers[event] as WsRoute built it: the user's method is awaited, its
\* result is sent unless undefined, and what it throws is answered here
WsWrapperFrames(outcome) ==
  CASE outcome.kind = "value" ->
         IF outcome.value = Undefined THEN << >>
         ELSE <<WsResultFrame(outcome.value)>>
    [] isHttpException(outcome.err) ->
         <<WsErrorFrame(outcome.err.message, outcome.err.details)>>
    [] OTHER -> <<WsErrorFrame("Internal WS error", Undefined)>>

\* the frames a client sends: text that is no JSON, or {event, data}
WsIncoming ==
  {[parses |-> FALSE, event |-> "-"]}
    \cup {[parses |-> TRUE, event |-> e] :
            e \in WsEvents \cup {"nope"} \cup ObjectPrototypeMembers}

\* what the user's method does
WsOutcomes ==
  { Returned(Undefined), Returned("good"),
    Thrown(HttpException("Forbidden", 403, "reason")),
    Thrown(NotFoundError("Not Found", Undefined)),
    Thrown(PlainError("boom1")) }

\* the frames the 'message' callback sends for one frame received
WsFrames(handlers, raw, outcome) ==
  IF ~raw.parses THEN <<WsErrorFrame("WS handler error", Undefined)>>
  ELSE CASE WsLookup(handlers, raw.event).kind = "undefined" ->
              <<WsErrorFrame("Unknown event: " \o raw.event, Undefined)>>
         [] WsLookup(handlers, raw.event).kind = "inherited" -> << >>
         [] OTHER -> WsWrapperFrames(outcome)

\* the function the 'message' callback called for the frame, if any
WsCalled(handlers, raw) ==
  IF ~raw.parses THEN "-"
  ELSE CASE WsLookup(handlers, raw.event).kind = "undefined" -> "-"
         [] WsLookup(handlers, raw.event).kind = "inherited" ->
              "Object.prototype." \o raw.event
         [] OTHER -> WsLookup(handlers, raw.event).methodName

\* ws.on('message', async (raw) => {...})
WsOnMessage(raw, outcome) ==
  /\ wsConn.state = "open"
  /\ Len(wsLog) < MaxMessages
  /\ LET handlers == wsRoutesRegistry[wsConn.url][1].handlers
         own == raw.parses /\ WsLookup(handlers, raw.event).kind = "own"
     IN /\ ~own => outcome = Returned(Undefined)
        /\ wsLog' = Append(wsLog,
                           [raw |-> raw,
                            called |-> WsCalled(handlers, raw),
                            outcome |-> outcome,
                            frames |-> WsFrames(handlers, raw, outcome)])
  /\ UNCHANGED <<wsMessages, wsRoutesRegistry, wsConn>>
  /\ UNCHANGED httpVars
  /\ UNCHANGED regVars
  /\ UNCHANGED reqVars

\* the class body is evaluated before its class decorator runs, and the
\* classes are imported before the server is started
WsDeclare ==
  \E c \in WsClasses, e \in WsEvents :
    /\ wsConn.state = "down"
    /\ \A p \in WsPaths : wsRoutesRegistry[p] = None
    /\ \A i \in 1..Len(wsMessages[c]) : wsMessages[c][i].event # e
    /\ WsMessage(e, c, WsMethod(e))

WsDefine ==
  \E c \in WsClasses, p \in WsPaths :
    /\ wsConn.state = "down"
    /\ \A q \in WsPaths : wsRoutesRegistry[q] = None
    /\ WsRoute(p, c)

WsConnect == \E url \in WsPaths : WsConnection(url)

WsReceive ==
  \E raw \in WsIncoming, outcome \in WsOutcomes : WsOnMessage(raw, outcome)

NextWs == WsDeclare \/ WsDefine \/ loadWsRoutes \/ WsConnect \/ WsReceive

SpecWs == Init /\ [][NextWs]_vars

\* the event names registered at the path of the connection
WsRegistered == DOMAIN wsRoutesRegistry[wsConn.url][1].handlers

\* C21: a connection to a path with no registration is closed and no
\* handler runs on it; on a registered path every frame that cannot be
\* parsed or whose event name is not registered is answered with one
\* {event: "error", ...} frame, the connection stays open and later frames
\* are still received; an HttpException thrown by an event handler is
\* answered with {event: "error", data: {message, details}}
C21_UnknownRejected ==
  /\ (wsConn.state \in {"open", "closed"}
      /\ wsRoutesRegistry[wsConn.url] = None) =>
       wsConn.state = "closed" /\ wsLog = << >>
  /\ wsLog # << >> => wsConn.state = "open"
  /\ \A i \in 1..Len(wsLog) :
       /\ (~wsLog[i].raw.parses \/ wsLog[i].raw.event \notin WsRegistered) =>
            /\ wsLog[i].called = "-"
            /\ Len(wsLog[i].frames) = 1
            /\ wsLog[i].frames[1].event = "error"
       /\ (wsLog[i].outcome.kind = "throw"
           /\ isHttpException(wsLog[i].outcome.err)) =>
            wsLog[i].frames
              = <<WsErrorFrame(wsLog[i].outcome.err.message,
                               wsLog[i].outcome.err.details)>>

====
